---------------------------- MODULE Spec2Model ----------------------------
(***************************************************************************)
(* Memory-management layer of the kernel: the two heap allocators          *)
(* (allocator/bump.rs, allocator/linked_list.rs), the boot-info frame      *)
(* allocator and the page-table walk (memory.rs), and the lock wrapper the *)
(* heap allocators are installed behind.                                   *)
(* The VGA text Writer (vga_buffer.rs) and the path of print! from the     *)
(* kernel's code and from the timer and keyboard handlers (interrupts.rs). *)
(*                                                                         *)
(* Machine words are WordBits wide instead of 64 so that the overflow      *)
(* cases of the address arithmetic are inside the checked range.           *)
(***************************************************************************)
EXTENDS Integers, Sequences, FiniteSets, TLC

VARIABLES
    which,        \* "bump" | "list": the heap allocator the build installs
    inited,       \* whether init has been called on the heap allocator
    heap,         \* [start, size] handed to init (kept for the properties)
    bump,         \* BumpAllocator's fields
    list,         \* LinkedListAllocator: the chain head.next, as <<[addr, size]>>
    outstanding,  \* blocks handed out and not yet freed, in allocation order
    last,         \* the last heap operation: what it returned, the node it
                  \* took (at) and the bytes that were free before it
    run,          \* history of the free-list heap since init
    panicked,     \* "" or the message of the panic that stopped the kernel
    memory_map,   \* BootInfoFrameAllocator.memory_map: <<[start, end, region_type]>>
    frame_next,   \* BootInfoFrameAllocator.next
    frame_log,    \* what each allocate_frame call returned, in call order
    tables,       \* physical memory: frame number -> the page table stored there
    mapped,       \* the pages create_example_mapping has mapped
    pt_last,      \* the last paging operation and what it returned
    locked,       \* the flag of the lock inside Locked<A>
    pc,           \* where each caller of the locked allocator is
    req,          \* the call each caller is making
    chars,        \* Writer.buffer.chars: the character of each screen cell
    column_position, \* Writer.column_position
    written,      \* the strings write_string was called with, in call order
    if_flag,      \* the CPU's interrupt-enable flag
    held,         \* which of WRITER, KEYBOARD and PICS is locked
    stack,        \* the code on the CPU: the kernel's code, above it the
                  \* interrupt handler that has interrupted it
    irq           \* per interrupt line: handler entries and end-of-interrupts

heapVars == <<which, inited, heap, bump, list, outstanding, last, run>>
frameVars == <<memory_map, frame_next, frame_log>>
pageVars == <<tables, mapped, pt_last>>
lockVars == <<locked, pc, req>>
vgaVars == <<chars, column_position, written>>
cpuVars == <<if_flag, held, stack, irq>>
outVars == <<vgaVars, cpuVars>>

vars == <<heapVars, panicked, frameVars, pageVars, lockVars, outVars>>

---------------------------------------------------------------------------
(* Bounds of the model *)

\* width of usize in bits (64 on the target)
WordBits == 12
\* heap size handed to init, in units of the node header's alignment
HeapUnits == 6
\* most blocks outstanding at once
MaxAllocs == 4
\* regions in the boot memory map
NumRegions == 3
\* most frames in one region of the memory map
MaxRegionFrames == 2
\* allocate_frame calls made beyond the usable frames
ExtraCalls == 2
\* width of a page-table index in bits (9 on the target)
IndexBits == 1
\* frames the frame allocator can hand to map_to for new page tables
PoolFrames == 6
\* callers of the locked heap allocator that can be under way at once
NumCallers == 2
\* write_string calls made on the screen
MaxWrites == 3
\* interrupts delivered on each line
MaxIrqs == 2

---------------------------------------------------------------------------
(* Machine words and layouts *)

Pow2(n) == 2 ^ n
UsizeMax == Pow2(WordBits) - 1
IsizeMax == Pow2(WordBits - 1) - 1

\* a null pointer / ptr::null_mut()
NULL == 0
\* Option::None of a checked operation
None == -1

\* size_of::<ListNode>(): a usize and an Option<&'static mut ListNode>
HeaderSize == 16
\* align_of::<ListNode>()
HeaderAlign == 8

Max(a, b) == IF a > b THEN a ELSE b

\* Layout::from_size_align: the size rounded up to align must not exceed isize::MAX
LayoutValid(size, align) == size <= IsizeMax - (align - 1)

\* the heap the boot sequence maps, and a misplaced and an undersized one
HEAP_START == 3 * Pow2(WordBits - 2)
HEAP_SIZE == HeapUnits * HeaderAlign
HeapStarts == {HEAP_START, HEAP_START + 4}
HeapSizes == {HEAP_SIZE, HeaderAlign}

\* the requests the callers make: non-zero sizes, power-of-two alignments
ReqSizes == {12, 24, HEAP_SIZE, IsizeMax}
ReqAligns == {1, 16, Pow2(WordBits - 2)}
Layouts == {l \in [size : ReqSizes, align : ReqAligns] : LayoutValid(l.size, l.align)}

\* align_up(addr, align): addr rounded up to the next multiple of align.  The
\* rounded value is kept as it is when it does not fit the word, so that the
\* caller's checked addition reports the request as one that does not fit.
align_up(addr, align) == ((addr + align - 1) \div align) * align

\* usize::checked_add
checked_add(a, b) == IF a + b > UsizeMax THEN None ELSE a + b

---------------------------------------------------------------------------
(* Bump allocator *)

\* BumpAllocator::new
BumpNew == [heap_start |-> 0, heap_end |-> 0, next |-> 0, allocations |-> 0]

\* BumpAllocator::init
BumpInit(b, heap_start, heap_size) ==
    [b EXCEPT !.heap_start = heap_start,
              !.heap_end = heap_start + heap_size,
              !.next = heap_start]

\* BumpAllocResult handing out the cursor itself instead of the rounded start
BumpAllocResult_Unaligned(b, layout) ==
    LET alloc_start == align_up(b.next, layout.align)
        alloc_end == checked_add(alloc_start, layout.size)
    IN  IF alloc_end = None THEN [ret |-> NULL, bump |-> b]
        ELSE IF alloc_end > b.heap_end THEN [ret |-> NULL, bump |-> b]
        ELSE [ret |-> b.next,
              bump |-> [b EXCEPT !.next = alloc_end, !.allocations = @ + 1]]

\* BumpAllocResult counting the allocation before it knows the request fits
BumpAllocResult_CountsFailure(b, layout) ==
    LET alloc_start == align_up(b.next, layout.align)
        alloc_end == checked_add(alloc_start, layout.size)
        counted == [b EXCEPT !.allocations = @ + 1]
    IN  IF alloc_end = None THEN [ret |-> NULL, bump |-> counted]
        ELSE IF alloc_end > b.heap_end THEN [ret |-> NULL, bump |-> counted]
        ELSE [ret |-> alloc_start, bump |-> [counted EXCEPT !.next = alloc_end]]

\* BumpAllocResult without the test against the end of the heap
BumpAllocResult_NoEndCheck(b, layout) ==
    LET alloc_start == align_up(b.next, layout.align)
        alloc_end == checked_add(alloc_start, layout.size)
    IN  IF alloc_end = None THEN [ret |-> NULL, bump |-> b]
        ELSE [ret |-> alloc_start,
              bump |-> [b EXCEPT !.next = alloc_end, !.allocations = @ + 1]]

\* alloc of Locked<BumpAllocator>: the pointer returned and the fields after
BumpAllocResult(b, layout) ==
    LET alloc_start == align_up(b.next, layout.align)
        alloc_end == checked_add(alloc_start, layout.size)
    IN  IF alloc_end = None THEN [ret |-> NULL, bump |-> b]
        ELSE IF alloc_end > b.heap_end THEN [ret |-> NULL, bump |-> b]
        ELSE [ret |-> alloc_start,
              bump |-> [b EXCEPT !.next = alloc_end, !.allocations = @ + 1]]

\* BumpDeallocResult that forgets to put the cursor back
BumpDeallocResult_NeverReset(b) == [b EXCEPT !.allocations = @ - 1]

\* BumpDeallocResult that puts the cursor back on every dealloc
BumpDeallocResult_AlwaysReset(b) ==
    [b EXCEPT !.allocations = @ - 1, !.next = b.heap_start]

\* dealloc of Locked<BumpAllocator>
BumpDeallocResult(b) ==
    LET n == b.allocations - 1
    IN  IF n = 0 THEN [b EXCEPT !.allocations = n, !.next = b.heap_start]
        ELSE [b EXCEPT !.allocations = n]

---------------------------------------------------------------------------
(* Free-list allocator *)

\* ListNode::end_addr
end_addr(region) == region.addr + region.size

\* add_free_region linking the new node behind the chain instead of in front
add_free_region_Tail(l, addr, size) ==
    IF align_up(addr, HeaderAlign) # addr
    THEN [panic |-> "assert_eq align", list |-> l]
    ELSE IF ~(size >= HeaderSize)
    THEN [panic |-> "assert size", list |-> l]
    ELSE [panic |-> "", list |-> l \o <<[addr |-> addr, size |-> size]>>]

\* add_free_region without its two assertions
add_free_region_NoAsserts(l, addr, size) ==
    [panic |-> "", list |-> <<[addr |-> addr, size |-> size]>> \o l]

\* LinkedListAllocator::add_free_region: the two assertions, then the new
\* node in front of the chain
add_free_region(l, addr, size) ==
    IF align_up(addr, HeaderAlign) # addr
    THEN [panic |-> "assert_eq align", list |-> l]
    ELSE IF ~(size >= HeaderSize)
    THEN [panic |-> "assert size", list |-> l]
    ELSE [panic |-> "", list |-> <<[addr |-> addr, size |-> size]>> \o l]

\* alloc_from_region without the test that the block ends inside the region
alloc_from_region_NoEndCheck(region, size, align) ==
    LET alloc_start == align_up(region.addr, align)
        alloc_end == checked_add(alloc_start, size)
    IN  IF alloc_end = None THEN None ELSE alloc_start

\* alloc_from_region that accepts a region whatever is left behind the block
alloc_from_region_AnyExcess(region, size, align) ==
    LET alloc_start == align_up(region.addr, align)
        alloc_end == checked_add(alloc_start, size)
    IN  IF alloc_end = None THEN None
        ELSE IF alloc_end > end_addr(region) THEN None
        ELSE alloc_start

\* LinkedListAllocator::alloc_from_region: the start address, or None (Err)
alloc_from_region(region, size, align) ==
    LET alloc_start == align_up(region.addr, align)
        alloc_end == checked_add(alloc_start, size)
    IN  IF alloc_end = None THEN None
        ELSE IF alloc_end > end_addr(region) THEN None
        ELSE LET excess_size == end_addr(region) - alloc_end
             IN  IF excess_size > 0 /\ excess_size < HeaderSize THEN None
                 ELSE alloc_start

\* find_region that takes the last node that fits instead of the first
find_region_LastFit(l, size, align) ==
    LET fits == {i \in 1..Len(l) : alloc_from_region(l[i], size, align) # None}
    IN  IF fits = {} THEN 0 ELSE CHOOSE i \in fits : \A j \in fits : i >= j

\* LinkedListAllocator::find_region: the position of the first node of the
\* chain alloc_from_region accepts, 0 when the scan reaches the end
find_region(l, size, align) ==
    LET fits == {i \in 1..Len(l) : alloc_from_region(l[i], size, align) # None}
    IN  IF fits = {} THEN 0 ELSE CHOOSE i \in fits : \A j \in fits : i <= j

\* the bytes held in the nodes of the chain
RECURSIVE FreeBytes(_)
FreeBytes(l) == IF l = <<>> THEN 0 ELSE Head(l).size + FreeBytes(Tail(l))

\* the chain with the node at position i unlinked
Unlink(l, i) == SubSeq(l, 1, i - 1) \o SubSeq(l, i + 1, Len(l))

\* LinkedListAllocator::size_align: the layout aligned to the header and
\* padded, its size at least the header's.  align_to fails, and the expect
\* panics, when the padded size leaves the range of a layout.
size_align(layout) ==
    LET align == Max(layout.align, HeaderAlign)
    IN  IF ~LayoutValid(layout.size, align)
        THEN [panic |-> "adjusting alignment failed", size |-> 0, align |-> 0]
        ELSE [panic |-> "",
              size |-> Max(align_up(layout.size, align), HeaderSize),
              align |-> align]

\* ListAllocResult that gives the rest back from the block's start instead
\* of its end
ListAllocResult_ExcessAtStart(l, layout) ==
    LET sa == size_align(layout)
        i == find_region(l, sa.size, sa.align)
    IN  IF sa.panic # "" THEN [panic |-> sa.panic, ret |-> NULL, list |-> l]
        ELSE IF i = 0 THEN [panic |-> "", ret |-> NULL, list |-> l]
        ELSE LET region == l[i]
                 alloc_start == alloc_from_region(region, sa.size, sa.align)
                 excess_size == end_addr(region) - (alloc_start + sa.size)
                 rest == Unlink(l, i)
             IN  IF excess_size > 0
                 THEN LET added == add_free_region(rest, alloc_start, excess_size)
                      IN  [panic |-> added.panic, ret |-> alloc_start,
                           list |-> added.list]
                 ELSE [panic |-> "", ret |-> alloc_start, list |-> rest]

\* ListAllocResult that does not give the rest of the region back
ListAllocResult_DropsExcess(l, layout) ==
    LET sa == size_align(layout)
        i == find_region(l, sa.size, sa.align)
    IN  IF sa.panic # "" THEN [panic |-> sa.panic, ret |-> NULL, list |-> l]
        ELSE IF i = 0 THEN [panic |-> "", ret |-> NULL, list |-> l]
        ELSE [panic |-> "", list |-> Unlink(l, i),
              ret |-> alloc_from_region(l[i], sa.size, sa.align)]

\* alloc of Locked<LinkedListAllocator>
ListAllocResult(l, layout) ==
    LET sa == size_align(layout)
        i == find_region(l, sa.size, sa.align)
    IN  IF sa.panic # "" THEN [panic |-> sa.panic, ret |-> NULL, list |-> l]
        ELSE IF i = 0 THEN [panic |-> "", ret |-> NULL, list |-> l]
        ELSE LET region == l[i]
                 alloc_start == alloc_from_region(region, sa.size, sa.align)
                 alloc_end == checked_add(alloc_start, sa.size)
                 excess_size == end_addr(region) - alloc_end
                 rest == Unlink(l, i)
             IN  IF alloc_end = None
                 THEN [panic |-> "overflow", ret |-> NULL, list |-> rest]
                 ELSE IF excess_size > 0
                 THEN LET added == add_free_region(rest, alloc_end, excess_size)
                      IN  [panic |-> added.panic, ret |-> alloc_start,
                           list |-> added.list]
                 ELSE [panic |-> "", ret |-> alloc_start, list |-> rest]

\* ListDeallocResult freeing the size asked for instead of the normalised one
ListDeallocResult_RawSize(l, ptr, layout) ==
    LET sa == size_align(layout)
    IN  IF sa.panic # "" THEN [panic |-> sa.panic, list |-> l]
        ELSE add_free_region(l, ptr, layout.size)

\* ListDeallocResult that merges the freed block with a head node next to it
ListDeallocResult_Merges(l, ptr, layout) ==
    LET sa == size_align(layout)
    IN  IF sa.panic # "" THEN [panic |-> sa.panic, list |-> l]
        ELSE IF l # <<>> /\ ptr + sa.size = l[1].addr
        THEN add_free_region(Tail(l), ptr, sa.size + l[1].size)
        ELSE IF l # <<>> /\ end_addr(l[1]) = ptr
        THEN add_free_region(Tail(l), l[1].addr, sa.size + l[1].size)
        ELSE add_free_region(l, ptr, sa.size)

\* dealloc of Locked<LinkedListAllocator>
ListDeallocResult(l, ptr, layout) ==
    LET sa == size_align(layout)
    IN  IF sa.panic # "" THEN [panic |-> sa.panic, list |-> l]
        ELSE add_free_region(l, ptr, sa.size)

---------------------------------------------------------------------------
(* The heap as the kernel uses it *)

NoOp == [op |-> "new", size |-> 0, align |-> 0, ret |-> NULL, cyc |-> FALSE,
         at |-> 0, free |-> 0]
NoRun == [phase |-> "other", blocks |-> <<>>]

Block(ret, layout) == [addr |-> ret, size |-> layout.size, align |-> layout.align]

\* the sequence s without its i-th element
Remove(s, i) == SubSeq(s, 1, i - 1) \o SubSeq(s, i + 1, Len(s))

\* the state of the parts of the kernel a specification leaves alone
HeapIdle ==
    /\ which = "none" /\ inited = FALSE /\ heap = [start |-> 0, size |-> 0]
    /\ bump = BumpNew /\ list = <<>> /\ outstanding = <<>>
    /\ last = NoOp /\ run = NoRun
FrameIdle == memory_map = <<>> /\ frame_next = 0 /\ frame_log = <<>>
PageIdle == tables = <<>> /\ mapped = {} /\ pt_last = <<>>
LockIdle == locked = FALSE /\ pc = <<>> /\ req = <<>>
VgaIdle == chars = <<>> /\ column_position = 0 /\ written = <<>>
CpuIdle == if_flag = FALSE /\ held = {} /\ stack = <<>> /\ irq = <<>>

InitHeap ==
    /\ FrameIdle /\ PageIdle /\ LockIdle /\ VgaIdle /\ CpuIdle
    /\ which \in {"bump", "list"}
    /\ inited = FALSE
    /\ heap = [start |-> 0, size |-> 0]
    /\ bump = BumpNew
    /\ list = <<>>
    /\ outstanding = <<>>
    /\ last = NoOp
    /\ run = NoRun
    /\ panicked = ""

\* allocator::init_heap with the bump allocator installed
BumpInitHeap(heap_start, heap_size) ==
    /\ which = "bump" /\ panicked = "" /\ ~inited
    /\ inited' = TRUE
    /\ heap' = [start |-> heap_start, size |-> heap_size]
    /\ bump' = BumpInit(bump, heap_start, heap_size)
    /\ last' = [NoOp EXCEPT !.op = "init"]
    /\ UNCHANGED <<which, list, outstanding, run, panicked>>
    /\ UNCHANGED <<frameVars, pageVars, lockVars, outVars>>

BumpAlloc(layout) ==
    /\ which = "bump" /\ panicked = ""
    /\ Len(outstanding) < MaxAllocs
    /\ LET r == BumpAllocResult(bump, layout)
       IN  /\ bump' = r.bump
           /\ outstanding' = IF r.ret = NULL THEN outstanding
                             ELSE Append(outstanding, Block(r.ret, layout))
           /\ last' = [NoOp EXCEPT !.op = "alloc", !.size = layout.size,
                                   !.align = layout.align, !.ret = r.ret]
    /\ UNCHANGED <<which, inited, heap, list, run, panicked>>
    /\ UNCHANGED <<frameVars, pageVars, lockVars, outVars>>

BumpDealloc(i) ==
    /\ which = "bump" /\ panicked = ""
    /\ i \in 1..Len(outstanding)
    /\ bump' = BumpDeallocResult(bump)
    /\ outstanding' = Remove(outstanding, i)
    /\ last' = [NoOp EXCEPT !.op = "dealloc", !.size = outstanding[i].size,
                            !.align = outstanding[i].align,
                            !.ret = outstanding[i].addr]
    /\ UNCHANGED <<which, inited, heap, list, run, panicked>>
    /\ UNCHANGED <<frameVars, pageVars, lockVars, outVars>>

\* allocator::init_heap with the free-list allocator installed
ListInitHeap(heap_start, heap_size) ==
    /\ which = "list" /\ panicked = "" /\ ~inited
    /\ inited' = TRUE
    /\ heap' = [start |-> heap_start, size |-> heap_size]
    /\ LET r == add_free_region(list, heap_start, heap_size)
       IN  /\ list' = r.list
           /\ panicked' = r.panic
    /\ last' = [NoOp EXCEPT !.op = "init"]
    /\ run' = [phase |-> "fresh", blocks |-> <<>>]
    /\ UNCHANGED <<which, bump, outstanding>>
    /\ UNCHANGED <<frameVars, pageVars, lockVars, outVars>>

ListAlloc(layout) ==
    /\ which = "list" /\ panicked = ""
    /\ Len(outstanding) < MaxAllocs
    /\ LET r == ListAllocResult(list, layout)
           ok == r.panic = "" /\ r.ret # NULL
       IN  /\ list' = r.list
           /\ panicked' = r.panic
           /\ outstanding' = IF ok THEN Append(outstanding, Block(r.ret, layout))
                             ELSE outstanding
           /\ last' = [op |-> "alloc", size |-> layout.size,
                       align |-> layout.align,
                       ret |-> IF r.panic = "" THEN r.ret ELSE NULL,
                       cyc |-> /\ last.op = "dealloc" /\ last.cyc
                               /\ last.size = layout.size
                               /\ last.align = layout.align,
                       at |-> IF size_align(layout).panic # "" THEN 0
                              ELSE find_region(list, size_align(layout).size,
                                               size_align(layout).align),
                       free |-> FreeBytes(list)]
           /\ run' = IF ~ok THEN run
                     ELSE IF run.phase \in {"fresh", "alloc"}
                     THEN [phase |-> "alloc",
                           blocks |-> Append(run.blocks, Block(r.ret, layout))]
                     ELSE NoRun
    /\ UNCHANGED <<which, inited, heap, bump>>
    /\ UNCHANGED <<frameVars, pageVars, lockVars, outVars>>

ListDealloc(i) ==
    /\ which = "list" /\ panicked = ""
    /\ i \in 1..Len(outstanding)
    /\ LET b == outstanding[i]
           r == ListDeallocResult(list, b.addr, [size |-> b.size, align |-> b.align])
       IN  /\ list' = r.list
           /\ panicked' = r.panic
           /\ last' = [op |-> "dealloc", size |-> b.size, align |-> b.align,
                       ret |-> b.addr,
                       cyc |-> /\ last.op = "alloc" /\ last.ret = b.addr
                               /\ last.size = b.size /\ last.align = b.align,
                       at |-> 0, free |-> FreeBytes(list)]
           /\ run' = IF run.phase \in {"alloc", "free"} /\ i = Len(outstanding)
                     THEN [run EXCEPT !.phase = "free"]
                     ELSE NoRun
    /\ outstanding' = Remove(outstanding, i)
    /\ UNCHANGED <<which, inited, heap, bump>>
    /\ UNCHANGED <<frameVars, pageVars, lockVars, outVars>>

NextHeap ==
    \/ \E hs \in HeapStarts, sz \in HeapSizes : BumpInitHeap(hs, sz)
    \/ \E l \in Layouts : BumpAlloc(l)
    \/ \E i \in 1..MaxAllocs : BumpDealloc(i)
    \/ \E hs \in HeapStarts, sz \in HeapSizes : ListInitHeap(hs, sz)
    \/ \E l \in Layouts : ListAlloc(l)
    \/ \E i \in 1..MaxAllocs : ListDealloc(i)

SpecHeap == InitHeap /\ [][NextHeap]_vars

---------------------------------------------------------------------------
(* Properties of the heap allocators *)

Blocks == {i \in 1..Len(outstanding) : TRUE}
BlockEnd(b) == b.addr + b.size
Disjoint(a, b) == BlockEnd(a) <= b.addr \/ BlockEnd(b) <= a.addr
LastLayout == [size |-> last.size, align |-> last.align]

\* C1: free-list allocator: every block handed out and still outstanding is
\* aligned to the alignment asked for, lies inside the heap handed to init and
\* overlaps no other outstanding block.
C1_ListBlocksSound ==
    which = "list" =>
        /\ \A i \in Blocks :
              /\ outstanding[i].addr # NULL
              /\ outstanding[i].addr % outstanding[i].align = 0
              /\ heap.start <= outstanding[i].addr
              /\ BlockEnd(outstanding[i]) <= heap.start + heap.size
        /\ \A i, j \in Blocks : i < j => Disjoint(outstanding[i], outstanding[j])

\* three blocks out, the last one handed out at an alignment above the header's
C1_Witness ==
    /\ which = "list" /\ panicked = ""
    /\ Len(outstanding) = 3
    /\ last.op = "alloc" /\ last.ret # NULL /\ last.align = 16
    /\ \E i \in Blocks : outstanding[i].addr = last.ret

\* C2: bump allocator: every block handed out and still outstanding is aligned
\* to the alignment asked for, lies inside [heap_start, heap_end] and overlaps
\* no other outstanding block.
C2_BumpBlocksSound ==
    which = "bump" =>
        /\ \A i \in Blocks :
              /\ outstanding[i].addr # NULL
              /\ outstanding[i].addr % outstanding[i].align = 0
              /\ bump.heap_start <= outstanding[i].addr
              /\ BlockEnd(outstanding[i]) <= bump.heap_end
        /\ \A i, j \in Blocks : i < j => Disjoint(outstanding[i], outstanding[j])

\* two blocks out of a heap that starts off the alignment asked for
C2_Witness ==
    /\ which = "bump" /\ heap.start % 16 # 0
    /\ Len(outstanding) >= 2
    /\ last.op = "alloc" /\ last.ret # NULL /\ last.align = 16

\* C3: bump allocator: a dealloc puts the cursor back to heap_start exactly
\* when it brings the allocation count to zero, and leaves the cursor where it
\* was otherwise.
C3_ResetIffLastFree ==
    [][(which = "bump" /\ last'.op = "dealloc") =>
          /\ (bump'.next = bump'.heap_start) <=> (bump'.allocations = 0)
          /\ bump'.allocations # 0 => bump'.next = bump.next
          /\ bump'.allocations = bump.allocations - 1]_vars

\* the free that empties the heap is not that of the first block handed out
C3_Witness ==
    /\ which = "bump" /\ last.op = "dealloc"
    /\ bump.allocations = 0 /\ bump.next = bump.heap_start
    /\ last.ret > heap.start

\* C4: free-list allocator: a block freed right after it was handed out does
\* not stop the kernel, and the same request made right after succeeds.
C4_AllocFreeAlloc ==
    /\ (last.op = "dealloc" /\ last.cyc) => panicked = ""
    /\ (last.op = "alloc" /\ last.cyc) => (last.ret # NULL /\ panicked = "")

\* the second alloc of such a cycle, made while another block is outstanding
C4_Witness ==
    /\ which = "list" /\ last.op = "alloc" /\ last.cyc /\ last.ret # NULL
    /\ Len(outstanding) >= 2

\* k >= 1 blocks were allocated from the fresh heap and then all freed, last
\* allocated first
RevFreedAll == which = "list" /\ run.phase = "free" /\ outstanding = <<>>

\* a request of this size at the header's alignment would be served
Satisfiable(size) ==
    LET sa == size_align([size |-> size, align |-> 1])
    IN  sa.panic = "" /\ find_region(list, sa.size, sa.align) # 0

\* C5 as stated: after k allocations freed in reverse order the heap serves
\* one request of the heap size less the header overhead (read as none, one
\* header per block, or one header per free node).
C5_FullHeapAgain ==
    RevFreedAll =>
        \E overhead \in {0, HeaderSize * Len(run.blocks), HeaderSize * Len(list)} :
            heap.size - overhead <= 0 \/ Satisfiable(heap.size - overhead)

\* C5 amended: after k allocations freed in reverse order each freed block is
\* a free node of its own, the k of them in front of the chain in allocation
\* order, and a request of the whole heap size is served only when one node
\* spans the whole heap.
C5_RevFreeKeepsBlocksApart ==
    RevFreedAll =>
        /\ Len(list) >= Len(run.blocks)
        /\ \A i \in 1..Len(run.blocks) :
              list[i] = [addr |-> run.blocks[i].addr,
                         size |-> size_align([size |-> run.blocks[i].size,
                                              align |-> run.blocks[i].align]).size]
        /\ Satisfiable(heap.size) <=>
              list = <<[addr |-> heap.start, size |-> heap.size]>>

\* two blocks freed in reverse order, the heap split in three
C5_Witness ==
    /\ RevFreedAll /\ panicked = ""
    /\ Len(run.blocks) = 2 /\ Len(list) = 3
    /\ ~Satisfiable(heap.size)

\* the aligned end of the request lies beyond heap_end
BumpUnsat(b, layout) == align_up(b.next, layout.align) + layout.size > b.heap_end

\* the layout can be normalised and no node of the chain passes the fit test
ListUnsat(l, layout) ==
    LET sa == size_align(layout)
    IN  /\ sa.panic = ""
        /\ \A i \in 1..Len(l) : alloc_from_region(l[i], sa.size, sa.align) = None

\* C8: an alloc that cannot be satisfied returns null, does not stop the
\* kernel, and leaves the allocator's state as it was.
C8_ExhaustionIsNull ==
    [][(/\ last'.op = "alloc"
        /\ \/ which = "bump" /\ BumpUnsat(bump, LastLayout')
           \/ which = "list" /\ ListUnsat(list, LastLayout'))
       => /\ last'.ret = NULL
          /\ panicked' = ""
          /\ bump' = bump
          /\ list' = list]_vars

\* a request refused by a bump heap with room left and blocks outstanding
C8_Witness ==
    /\ which = "bump" /\ last.op = "alloc" /\ last.ret = NULL
    /\ bump.allocations > 0 /\ bump.next < bump.heap_end

\* the word overflows while the request is computed: rounding the start up,
\* adding the size, or (free list) normalising the layout
BumpOverflows(b, layout) ==
    \/ align_up(b.next, layout.align) > UsizeMax
    \/ align_up(b.next, layout.align) + layout.size > UsizeMax

ListOverflows(layout) == ~LayoutValid(layout.size, Max(layout.align, HeaderAlign))

\* C9: on an initialised heap, an alloc whose address arithmetic overflows the
\* word returns null and the kernel keeps running.
C9_OverflowIsExhaustion ==
    [][(/\ inited /\ last'.op = "alloc"
        /\ \/ which = "bump" /\ BumpOverflows(bump, LastLayout')
           \/ which = "list" /\ ListOverflows(LastLayout'))
       => (last'.ret = NULL /\ panicked' = "")]_vars

\* C12: bump allocator: while an allocation is outstanding the cursor never
\* moves down, whatever is freed, and a block handed out starts at or above
\* the cursor, so the bytes of freed blocks are not handed out again.
C12_CursorNeverRetreats ==
    [][(which = "bump" /\ outstanding' # <<>>) =>
          /\ bump'.next >= bump.next
          /\ (last'.op = "alloc" /\ last'.ret # NULL /\ bump' # bump)
                => last'.ret >= bump.next]_vars

\* two of three blocks freed, and a request that the freed bytes would hold
\* is refused because the third block is still outstanding
C12_Witness ==
    /\ which = "bump" /\ Len(outstanding) = 1 /\ bump.allocations = 1
    /\ last.op = "alloc" /\ last.ret = NULL /\ last.align = 1
    /\ outstanding[1].addr = heap.start
    /\ outstanding[1].size + last.size <= heap.size
    /\ bump.next = bump.heap_end

\* regions add_free_region must refuse: too small for a header, or starting
\* off the header's alignment
BadRegions ==
    {r \in [addr : {heap.start, heap.start + 4, heap.start + HeaderAlign, HEAP_START + 4},
            size : {0, HeaderAlign, HeaderSize - 1, HeaderSize, HEAP_SIZE}] :
        r.addr % HeaderAlign # 0 \/ r.size < HeaderSize}

\* C13: free-list allocator: a region smaller than the header, or one that
\* starts off the header's alignment, stops the kernel in add_free_region before
\* a node is written or the head is changed: a heap of that kind handed to
\* init leaves the list empty, and in every state such a region is refused
\* with the list as it was.
C13_BadRegionStopsFirst ==
    which = "list" =>
        /\ (inited /\ (heap.start % HeaderAlign # 0 \/ heap.size < HeaderSize))
              => /\ panicked \in {"assert_eq align", "assert size"}
                 /\ list = <<>> /\ outstanding = <<>>
        /\ \A r \in BadRegions :
              /\ add_free_region(list, r.addr, r.size).panic
                    \in {"assert_eq align", "assert size"}
              /\ add_free_region(list, r.addr, r.size).list = list

\* init over a heap of 8 bytes at an aligned address has stopped the kernel
C13_Witness ==
    /\ which = "list" /\ inited
    /\ heap.start % HeaderAlign = 0 /\ heap.size < HeaderSize
    /\ panicked = "assert size" /\ list = <<>>

\* the scenario of a heap of 1024 bytes: three requests of 64 bytes aligned
\* to 8, then one of 900 bytes, with the heap at any header-aligned place of
\* the address space
ScenarioHeapSize == Pow2(10)
ScenarioStarts ==
    {s \in HeaderAlign..(UsizeMax - ScenarioHeapSize) : s % HeaderAlign = 0}
ScenarioCalls ==
    <<[size |-> 64, align |-> 8], [size |-> 64, align |-> 8],
      [size |-> 64, align |-> 8], [size |-> 900, align |-> 8]>>
\* the request the scenario makes next: one call per block handed out so far
ScenarioUnderWay ==
    /\ inited
    /\ Len(outstanding) < Len(ScenarioCalls)
    /\ last.size # ScenarioCalls[Len(ScenarioCalls)].size
ScenarioRequest == ScenarioCalls[Len(outstanding) + 1]

NextScenario ==
    \/ \E s \in ScenarioStarts : BumpInitHeap(s, ScenarioHeapSize)
    \/ \E s \in ScenarioStarts : ListInitHeap(s, ScenarioHeapSize)
    \/ ScenarioUnderWay /\ BumpAlloc(ScenarioRequest)
    \/ ScenarioUnderWay /\ ListAlloc(ScenarioRequest)

SpecScenario == InitHeap /\ [][NextScenario]_vars

\* C14: either allocator over a heap of 1024 bytes: the three requests of 64
\* bytes aligned to 8 are all granted, at distinct addresses and without
\* overlap, and the request of 900 bytes that follows gets the null pointer
\* without the kernel stopping.
C14_Scenario ==
    /\ panicked = ""
    /\ (last.op = "alloc" /\ last.size = 64) =>
          /\ last.ret # NULL
          /\ outstanding # <<>>
          /\ outstanding[Len(outstanding)].addr = last.ret
    /\ \A i, j \in Blocks :
          i # j => /\ outstanding[i].addr # outstanding[j].addr
                   /\ Disjoint(outstanding[i], outstanding[j])
    /\ \A i \in Blocks :
          /\ outstanding[i].addr % 8 = 0
          /\ heap.start <= outstanding[i].addr
          /\ BlockEnd(outstanding[i]) <= heap.start + heap.size
    /\ (last.op = "alloc" /\ last.size = 900) =>
          /\ last.ret = NULL
          /\ Len(outstanding) = 3

\* the free-list allocator has refused the 900 bytes with three blocks out
C14_Witness ==
    /\ which = "list" /\ heap.size = ScenarioHeapSize
    /\ last.op = "alloc" /\ last.size = 900 /\ last.ret = NULL
    /\ Len(outstanding) = 3 /\ panicked = ""
    /\ \A i \in Blocks : outstanding[i].size = 64

\* a node fits a request when the block, started at the node's start rounded
\* up to the alignment, ends inside the node and leaves nothing or at least a
\* header
Leftover(n, size, align) == (n.addr + n.size) - (align_up(n.addr, align) + size)
Fits(n, size, align) ==
    /\ align_up(n.addr, align) + size <= n.addr + n.size
    /\ Leftover(n, size, align) = 0 \/ Leftover(n, size, align) >= HeaderSize

C17_NoLeakAcrossCycle ==
    [][(which = "list" /\ last'.op = "dealloc" /\ last'.cyc /\ panicked' = "")
          => FreeBytes(list') = last.free]_vars

\* C18: free-list allocator over a heap that starts on the header's alignment
\* and holds at least a header: after init and any allocs and deallocs of
\* outstanding blocks, every node of the list is at least a header long and
\* starts on the header's alignment, and neither assertion of add_free_region
\* has fired.
C18_NodesWellFormed ==
    (which = "list" /\ inited
        /\ heap.start % HeaderAlign = 0 /\ heap.size >= HeaderSize)
    => /\ \A k \in 1..Len(list) :
             /\ list[k].size >= HeaderSize
             /\ list[k].addr % HeaderAlign = 0
       /\ panicked \notin {"assert_eq align", "assert size"}

\* a block of 12 bytes has been freed as a node of a header's length, next to
\* another node and with a block still outstanding
C18_Witness ==
    /\ which = "list" /\ inited /\ panicked = ""
    /\ last.op = "dealloc" /\ outstanding # <<>>
    /\ Len(list) >= 2
    /\ last.size < HeaderSize
    /\ list[1] = [addr |-> last.ret, size |-> HeaderSize]

\* C19: bump allocator after init, under any allocs and deallocs of
\* outstanding blocks: the cursor stays between the start and the end of the
\* heap, the count is not negative and is the number of blocks outstanding,
\* and with a count of 0 the cursor is at the start of the heap.
C19_BumpState ==
    (which = "bump" /\ inited) =>
        /\ bump.heap_start <= bump.next /\ bump.next <= bump.heap_end
        /\ bump.heap_start = heap.start /\ bump.heap_end = heap.start + heap.size
        /\ bump.allocations >= 0
        /\ bump.allocations = Len(outstanding)
        /\ bump.allocations = 0 => bump.next = bump.heap_start

\* the heap was filled to its end by three blocks and one of them was freed
C19_Witness ==
    /\ which = "bump" /\ inited
    /\ last.op = "dealloc" /\ bump.allocations = 2
    /\ bump.next = bump.heap_end /\ bump.heap_end > bump.heap_start

\* the chain as it lies in the heap: each node's header is stored at the
\* node's own address, a later write over an address replacing an earlier
\* one (nodes are always written at the head, so the node nearer the head is
\* the later one).  NextPtr is the next field read back from the header at
\* an address, NULL at the end of the chain.
HeaderAt(l, a) == CHOOSE i \in 1..Len(l) : l[i].addr = a /\ \A j \in 1..Len(l) : l[j].addr = a => i <= j
NextPtr(l, a) ==
    IF HeaderAt(l, a) = Len(l) THEN NULL ELSE l[HeaderAt(l, a) + 1].addr
\* the addresses a scan visits from address a on, given up after n nodes
RECURSIVE Scan(_, _, _)
Scan(l, a, n) ==
    IF a = NULL THEN <<>>
    ELSE IF n = 0 THEN <<a>>
    ELSE <<a>> \o Scan(l, NextPtr(l, a), n - 1)
\* the scan from the head ends at the null pointer after as many nodes as
\* the list has, each visited once
ScanTerminates(l) ==
    LET seen == Scan(l, IF l = <<>> THEN NULL ELSE l[1].addr, Len(l))
    IN  /\ Len(seen) = Len(l)
        /\ \A i \in 1..Len(l) : seen[i] = l[i].addr
        /\ \A i, j \in 1..Len(l) : i # j => seen[i] # seen[j]

\* the range a block occupies: its layout as size_align normalises it
NormEnd(b) == b.addr + size_align([size |-> b.size, align |-> b.align]).size

\* C23: free-list allocator, after init and any allocs and deallocs of
\* outstanding blocks: the nodes of the list overlap neither each other nor
\* the normalised range of an outstanding block and lie inside the heap
\* handed to init; the chain read from the heap ends after finitely many
\* nodes without coming back to one, so a scan terminates.
C23_FreeListPartition ==
    (which = "list" /\ inited) =>
        /\ \A i, j \in 1..Len(list) :
              i # j => \/ end_addr(list[i]) <= list[j].addr
                       \/ end_addr(list[j]) <= list[i].addr
        /\ \A i \in 1..Len(list) :
              /\ heap.start <= list[i].addr
              /\ end_addr(list[i]) <= heap.start + heap.size
              /\ list[i].size > 0
        /\ \A i \in 1..Len(list) : \A k \in Blocks :
              \/ end_addr(list[i]) <= outstanding[k].addr
              \/ NormEnd(outstanding[k]) <= list[i].addr
        /\ ScanTerminates(list)

\* two free nodes and a block still outstanding after a dealloc
C23_Witness ==
    /\ which = "list" /\ inited /\ panicked = ""
    /\ last.op = "dealloc"
    /\ Len(list) >= 2 /\ Len(outstanding) >= 1
    /\ FreeBytes(list) < heap.size

---------------------------------------------------------------------------
(* Boot-info frame allocator *)

\* the frame size: the step of usable_frames
PAGE_SIZE == 4096

RegionTypes == {"Usable", "Reserved"}

\* FrameRange::start_addr / end_addr: the range holds frame numbers
start_addr(r) == r.start * PAGE_SIZE
range_end_addr(r) == r.end * PAGE_SIZE

\* PhysFrame::containing_address: the start address of the frame holding addr
containing_address(addr) == (addr \div PAGE_SIZE) * PAGE_SIZE

\* the filter of usable_frames
IsUsable(r) == r.region_type = "Usable"

\* (start..end).step_by(4096), each address turned into its frame
RECURSIVE StepFrames(_, _)
StepFrames(from, to) ==
    IF from >= to THEN <<>>
    ELSE <<containing_address(from)>> \o StepFrames(from + PAGE_SIZE, to)

\* BootInfoFrameAllocator::usable_frames: the frames of the usable regions,
\* in the order of the map
RECURSIVE usable_frames(_)
usable_frames(mm) ==
    IF mm = <<>> THEN <<>>
    ELSE (IF IsUsable(Head(mm))
          THEN StepFrames(start_addr(Head(mm)), range_end_addr(Head(mm)))
          ELSE <<>>) \o usable_frames(Tail(mm))

\* allocate_frame that moves on only past a frame it found
AllocateFrameResult_StuckAtEnd(mm, next) ==
    LET frames == usable_frames(mm)
    IN  IF next < Len(frames) THEN [frame |-> frames[next + 1], next |-> next + 1]
        ELSE [frame |-> None, next |-> next]

\* BootInfoFrameAllocator::allocate_frame: nth(next), then next += 1
AllocateFrameResult(mm, next) ==
    LET frames == usable_frames(mm)
    IN  [frame |-> IF next < Len(frames) THEN frames[next + 1] ELSE None,
         next |-> next + 1]

\* the memory maps the boot loader hands over: NumRegions regions, one after
\* the other from frame 1 on, none overlapping another
RECURSIVE RegionsFrom(_, _)
RegionsFrom(first, n) ==
    IF n = 0 THEN {<<>>}
    ELSE UNION {{<<[start |-> first, end |-> first + len, region_type |-> t]>> \o rest :
                    rest \in RegionsFrom(first + len, n - 1)} :
                len \in 0..MaxRegionFrames, t \in RegionTypes}
MemoryMaps == RegionsFrom(1, NumRegions)

\* the number of frames in the usable regions
RECURSIVE UsableCount(_)
UsableCount(mm) ==
    IF mm = <<>> THEN 0
    ELSE (IF Head(mm).region_type = "Usable" THEN Head(mm).end - Head(mm).start ELSE 0)
         + UsableCount(Tail(mm))

\* BootInfoFrameAllocator::init
InitFrame ==
    /\ HeapIdle /\ PageIdle /\ LockIdle /\ VgaIdle /\ CpuIdle /\ panicked = ""
    /\ memory_map \in MemoryMaps
    /\ frame_next = 0
    /\ frame_log = <<>>

AllocateFrame ==
    /\ frame_next < UsableCount(memory_map) + ExtraCalls
    /\ LET r == AllocateFrameResult(memory_map, frame_next)
       IN  /\ frame_next' = r.next
           /\ frame_log' = Append(frame_log, r.frame)
    /\ UNCHANGED <<memory_map, heapVars, panicked, pageVars, lockVars, outVars>>

NextFrame == AllocateFrame

SpecFrame == InitFrame /\ [][NextFrame]_vars

\* C6: with m frames in the usable regions, the first m calls of
\* allocate_frame return m different frame addresses, each a multiple of the
\* frame size inside a usable region; every later call returns no frame; and
\* the index has grown by one for every call made.
C6_FramesOnceEach ==
    LET m == UsableCount(memory_map)
        calls == 1..Len(frame_log)
    IN  /\ frame_next = Len(frame_log)
        /\ \A i \in calls :
              IF i <= m
              THEN /\ frame_log[i] # None
                   /\ frame_log[i] % PAGE_SIZE = 0
                   /\ \E k \in 1..Len(memory_map) :
                         /\ memory_map[k].region_type = "Usable"
                         /\ memory_map[k].start * PAGE_SIZE <= frame_log[i]
                         /\ frame_log[i] < memory_map[k].end * PAGE_SIZE
              ELSE frame_log[i] = None
        /\ \A i, j \in calls : (i < j /\ j <= m) => frame_log[i] # frame_log[j]

\* two usable regions with a reserved one of two frames between them, every
\* usable frame handed out and two more calls made
C6_Witness ==
    /\ Len(memory_map) = 3
    /\ memory_map[1].region_type = "Usable" /\ memory_map[1].end > memory_map[1].start
    /\ memory_map[2].region_type = "Reserved" /\ memory_map[2].end > memory_map[2].start + 1
    /\ memory_map[3].region_type = "Usable" /\ memory_map[3].end > memory_map[3].start
    /\ Len(frame_log) = UsableCount(memory_map) + 2
    /\ frame_log[Len(frame_log)] = None

---------------------------------------------------------------------------
(* Page tables: translate_addr and create_example_mapping *)

\* entries in a page table
ENTRY_COUNT == Pow2(IndexBits)
Indexes == 0..(ENTRY_COUNT - 1)

\* the frame Cr3 names: the level-4 table
Cr3 == 0
\* the frame create_example_mapping maps the page to (0xb8000)
VGA_ADDR == 753664

\* VirtAddr::p4_index .. p1_index (level 4 .. 1) and page_offset
RECURSIVE EntryPow(_)
EntryPow(k) == IF k = 0 THEN 1 ELSE ENTRY_COUNT * EntryPow(k - 1)
table_index(addr, level) == (addr \div (PAGE_SIZE * EntryPow(level - 1))) % ENTRY_COUNT
table_indexes(addr) ==
    <<table_index(addr, 4), table_index(addr, 3), table_index(addr, 2),
      table_index(addr, 1)>>
page_offset(addr) == addr % PAGE_SIZE

\* the start address of the page with these four indexes
PageAt(i4, i3, i2, i1) ==
    PAGE_SIZE * (i4 * EntryPow(3) + i3 * EntryPow(2) + i2 * EntryPow(1) + i1)

\* a page-table entry: unused, a huge page, or the frame of the next level
Unused == [present |-> FALSE, huge |-> FALSE, addr |-> 0]
Huge(a) == [present |-> TRUE, huge |-> TRUE, addr |-> a]
Points(a) == [present |-> TRUE, huge |-> FALSE, addr |-> a]
EmptyTable == [i \in Indexes |-> Unused]

NoMapping == [kind |-> "none", addr |-> 0]
Fatal == [kind |-> "panic", addr |-> 0]
Some(a) == [kind |-> "some", addr |-> a]

\* the walk of translate_addr_inner from the table in `frame` down the indexes
\* left: PageTableEntry::frame says not present, huge, or the next frame.
\* A table is read through the offset mapping of physical memory, that is at
\* its physical address.
\* a walk that takes a huge page for an entry that is not present
RECURSIVE Walk_HugeAsAbsent(_, _, _)
Walk_HugeAsAbsent(t, frame, idxs) ==
    IF idxs = <<>> THEN Some(frame)
    ELSE LET entry == t[frame][Head(idxs)]
         IN  IF ~entry.present \/ entry.huge THEN NoMapping
             ELSE Walk_HugeAsAbsent(t, entry.addr, Tail(idxs))

RECURSIVE Walk(_, _, _)
Walk(t, frame, idxs) ==
    IF idxs = <<>> THEN Some(frame)
    ELSE LET entry == t[frame][Head(idxs)]
         IN  IF ~entry.present THEN NoMapping
             ELSE IF entry.huge THEN Fatal
             ELSE Walk(t, entry.addr, Tail(idxs))

\* translate_addr_inner that returns the start of the frame
translate_addr_inner_NoOffset(t, addr) == Walk(t, Cr3, table_indexes(addr))

\* translate_addr_inner
translate_addr_inner(t, addr) ==
    LET found == Walk(t, Cr3, table_indexes(addr))
    IN  IF found.kind = "some" THEN Some(found.addr + page_offset(addr))
        ELSE found

\* Mapper::map_to below the table in `frame`: tables missing on the way are
\* taken from the frame allocator and zeroed; the level-1 entry must be unused
RECURSIVE MapToFrom(_, _, _, _, _)
MapToFrom(t, next, frame, idxs, target) ==
    LET entry == t[frame][Head(idxs)]
    IN  IF Len(idxs) = 1
        THEN IF entry.present
             THEN [err |-> "PageAlreadyMapped", tables |-> t, next |-> next]
             ELSE [err |-> "", next |-> next,
                   tables |-> [t EXCEPT ![frame][Head(idxs)] = Points(target)]]
        ELSE IF ~entry.present
        THEN LET got == AllocateFrameResult(memory_map, next)
             IN  IF got.frame = None
                 THEN [err |-> "FrameAllocationFailed", tables |-> t, next |-> got.next]
                 ELSE MapToFrom((got.frame :> EmptyTable) @@
                                    [t EXCEPT ![frame][Head(idxs)] = Points(got.frame)],
                                got.next, got.frame, Tail(idxs), target)
        ELSE IF entry.huge
        THEN [err |-> "ParentEntryHugePage", tables |-> t, next |-> next]
        ELSE MapToFrom(t, next, entry.addr, Tail(idxs), target)

\* the pages and addresses the kernel maps and translates
PagesUnderTest ==
    {PageAt(0, 0, 0, 0), PageAt(0, 0, 0, ENTRY_COUNT - 1), PageAt(0, 1, 0, 1),
     PageAt(1, 0, 1, 0), PageAt(ENTRY_COUNT - 1, ENTRY_COUNT - 1, 1, 1)}
Offsets == {0, 5, PAGE_SIZE - 1}
TestAddrs == {p + off : p \in PagesUnderTest, off \in Offsets}

\* the page tables the boot loader leaves: nothing mapped; one page mapped
\* through tables of its own; a huge page at level 3, 4, 2 or 1
BootFrame(n) == (100 + n) * PAGE_SIZE
BootTables ==
    {(Cr3 :> EmptyTable),
     (Cr3 :> [EmptyTable EXCEPT ![ENTRY_COUNT - 1] = Points(BootFrame(1))])
       @@ (BootFrame(1) :> [EmptyTable EXCEPT ![ENTRY_COUNT - 1] = Points(BootFrame(2))])
       @@ (BootFrame(2) :> [EmptyTable EXCEPT ![1] = Points(BootFrame(3))])
       @@ (BootFrame(3) :> [EmptyTable EXCEPT ![1] = Points(BootFrame(4))]),
     (Cr3 :> [EmptyTable EXCEPT ![1] = Points(BootFrame(1))])
       @@ (BootFrame(1) :> [EmptyTable EXCEPT ![0] = Huge(BootFrame(8))]),
     (Cr3 :> [EmptyTable EXCEPT ![1] = Huge(BootFrame(8))]),
     (Cr3 :> [EmptyTable EXCEPT ![1] = Points(BootFrame(1))])
       @@ (BootFrame(1) :> [EmptyTable EXCEPT ![0] = Points(BootFrame(2))])
       @@ (BootFrame(2) :> [EmptyTable EXCEPT ![1] = Huge(BootFrame(8))]),
     (Cr3 :> [EmptyTable EXCEPT ![1] = Points(BootFrame(1))])
       @@ (BootFrame(1) :> [EmptyTable EXCEPT ![0] = Points(BootFrame(2))])
       @@ (BootFrame(2) :> [EmptyTable EXCEPT ![1] = Points(BootFrame(3))])
       @@ (BootFrame(3) :> [EmptyTable EXCEPT ![0] = Huge(BootFrame(8))])}

NoPaging == [op |-> "none", addr |-> 0, result |-> NoMapping]

\* memory::init and BootInfoFrameAllocator::init
InitPaging ==
    /\ HeapIdle /\ LockIdle /\ VgaIdle /\ CpuIdle /\ panicked = ""
    /\ memory_map = <<[start |-> 1, end |-> 1 + PoolFrames, region_type |-> "Usable"]>>
    /\ frame_next = 0
    /\ frame_log = <<>>
    /\ tables \in BootTables
    /\ mapped = {}
    /\ pt_last = NoPaging

\* create_example_mapping(page, mapper, frame_allocator)
CreateExampleMapping(page) ==
    /\ panicked = ""
    /\ LET frame == containing_address(VGA_ADDR)
           r == MapToFrom(tables, frame_next, Cr3, table_indexes(page), frame)
       IN  /\ tables' = r.tables
           /\ frame_next' = r.next
           /\ panicked' = IF r.err = "" THEN "" ELSE "map_to failed"
           /\ mapped' = IF r.err = "" THEN mapped \cup {page} ELSE mapped
           /\ pt_last' = [op |-> "map", addr |-> page,
                          result |-> IF r.err = "" THEN Some(frame) ELSE Fatal]
    /\ UNCHANGED <<memory_map, frame_log, heapVars, lockVars, outVars>>

\* translate_addr(addr, physical_memory_offset)
Translate(addr) ==
    /\ panicked = ""
    /\ LET r == translate_addr_inner(tables, addr)
       IN  /\ pt_last' = [op |-> "translate", addr |-> addr, result |-> r]
           /\ panicked' = IF r.kind = "panic" THEN "huge pages not supported" ELSE ""
    /\ UNCHANGED <<tables, mapped, frameVars, heapVars, lockVars, outVars>>

NextPaging ==
    \/ \E page \in PagesUnderTest : CreateExampleMapping(page)
    \/ \E addr \in TestAddrs : Translate(addr)

SpecPaging == InitPaging /\ [][NextPaging]_vars

\* C7: an address inside a page that create_example_mapping has mapped
\* translates to the start of the mapped frame plus the address's offset in
\* the page.
C7_TranslateRoundTrip ==
    /\ \A p \in mapped : \A off \in Offsets :
          translate_addr_inner(tables, p + off) = Some(VGA_ADDR + off)
    /\ \A p \in mapped :
          (pt_last.op = "translate" /\ p <= pt_last.addr /\ pt_last.addr < p + PAGE_SIZE)
              => pt_last.result = Some(VGA_ADDR + (pt_last.addr - p))

\* the last byte of a page translated after two pages were mapped next to a
\* mapping the boot loader left
C7_Witness ==
    /\ Cardinality(mapped) >= 2 /\ Cardinality(DOMAIN tables) > 6
    /\ pt_last.op = "translate" /\ pt_last.result.kind = "some"
    /\ pt_last.addr % PAGE_SIZE = PAGE_SIZE - 1
    /\ \E p \in mapped : p <= pt_last.addr /\ pt_last.addr < p + PAGE_SIZE

\* the outcome of a translation read off the four entries on the address's
\* path, top down: the first entry that is not present or is a huge page
\* decides it
PathOutcome(t, addr) ==
    LET i == table_indexes(addr)
        e4 == t[Cr3][i[1]]
        e3 == t[e4.addr][i[2]]
        e2 == t[e3.addr][i[3]]
        e1 == t[e2.addr][i[4]]
        Stops(e) == ~e.present \/ e.huge
        Outcome(e) == IF ~e.present THEN NoMapping ELSE Fatal
    IN  IF Stops(e4) THEN Outcome(e4)
        ELSE IF Stops(e3) THEN Outcome(e3)
        ELSE IF Stops(e2) THEN Outcome(e2)
        ELSE IF Stops(e1) THEN Outcome(e1)
        ELSE Some(e1.addr + (addr % PAGE_SIZE))

\* C11: a translation answers "no mapping" when an entry on the path is not
\* present, stops the kernel when an entry at any level is a huge page, and
\* otherwise answers the frame's start plus the offset in the page; it changes
\* no page-table entry and nothing else.
C11_TranslateReadsOnly ==
    [][pt_last'.op = "translate" =>
          /\ pt_last'.result = PathOutcome(tables, pt_last'.addr)
          /\ (pt_last'.result.kind = "panic") = (panicked' = "huge pages not supported")
          /\ pt_last'.result.kind # "panic" => panicked' = panicked
          /\ tables' = tables /\ mapped' = mapped
          /\ UNCHANGED <<frameVars, heapVars, lockVars, outVars>>]_vars

\* a translation that met the huge page the boot loader left at level 1, after
\* a page was mapped
C11_Witness ==
    /\ pt_last.op = "translate" /\ pt_last.result.kind = "panic"
    /\ panicked = "huge pages not supported"
    /\ mapped # {}
    /\ \E f \in DOMAIN tables : \E i \in Indexes :
          /\ tables[f][i].huge
          /\ \E g \in DOMAIN tables : \E k \in Indexes :
                tables[g][k] = Points(f) /\ g # Cr3 /\ tables[Cr3][1] # Points(g)

---------------------------------------------------------------------------
(* The heap allocator behind its lock: Locked<A> under several callers *)

Callers == 1..NumCallers

\* the requests made while callers interleave
LockLayouts ==
    {[size |-> 24, align |-> 1], [size |-> HEAP_SIZE, align |-> 16],
     [size |-> IsizeMax, align |-> 1]}

NoReq == [op |-> "none", size |-> 0, align |-> 0, ptr |-> NULL]

\* the callers that hold the guard lock() returned
InSection == {c \in Callers : pc[c] \in {"held", "done"}}

\* alloc calls under way: their blocks count towards MaxAllocs
Pending == {c \in Callers : pc[c] # "idle" /\ req[c].op = "alloc"}

\* the lock's flag can be taken only while it is clear
TryLock(flag) == ~flag

\* the heap initialised over the kernel's heap range, no call under way
InitLock ==
    /\ FrameIdle /\ PageIdle /\ VgaIdle /\ CpuIdle /\ panicked = ""
    /\ which \in {"bump", "list"}
    /\ inited = TRUE
    /\ heap = [start |-> HEAP_START, size |-> HEAP_SIZE]
    /\ bump = BumpInit(BumpNew, HEAP_START, HEAP_SIZE)
    /\ list = IF which = "list" THEN add_free_region(<<>>, HEAP_START, HEAP_SIZE).list
              ELSE <<>>
    /\ outstanding = <<>>
    /\ last = NoOp /\ run = NoRun
    /\ locked = FALSE
    /\ pc = [c \in Callers |-> "idle"]
    /\ req = [c \in Callers |-> NoReq]

\* a caller enters alloc; the free-list alloc normalises the layout before it
\* asks for the lock
CallAlloc(c, layout) ==
    /\ panicked = "" /\ pc[c] = "idle"
    /\ Len(outstanding) + Cardinality(Pending) < MaxAllocs
    /\ req' = [req EXCEPT ![c] = [op |-> "alloc", size |-> layout.size,
                                  align |-> layout.align, ptr |-> NULL]]
    /\ IF which = "list" /\ size_align(layout).panic # ""
       THEN panicked' = size_align(layout).panic /\ pc' = pc
       ELSE panicked' = "" /\ pc' = [pc EXCEPT ![c] = "lock"]
    /\ UNCHANGED <<which, inited, heap, bump, list, outstanding, last, run>>
    /\ UNCHANGED <<locked, frameVars, pageVars, outVars>>

\* a caller enters dealloc with a block it was handed
CallDealloc(c, i) ==
    /\ panicked = "" /\ pc[c] = "idle"
    /\ i \in 1..Len(outstanding)
    /\ req' = [req EXCEPT ![c] = [op |-> "dealloc", size |-> outstanding[i].size,
                                  align |-> outstanding[i].align,
                                  ptr |-> outstanding[i].addr]]
    /\ outstanding' = Remove(outstanding, i)
    /\ pc' = [pc EXCEPT ![c] = "lock"]
    /\ UNCHANGED <<which, inited, heap, bump, list, last, run, panicked>>
    /\ UNCHANGED <<locked, frameVars, pageVars, outVars>>

\* a lock() that goes on into the section whether the flag is clear or not
Lock_Barges(c) ==
    /\ panicked = "" /\ pc[c] = "lock"
    /\ locked' = TRUE
    /\ pc' = [pc EXCEPT ![c] = "held"]
    /\ UNCHANGED <<heapVars, panicked, req, frameVars, pageVars, outVars>>

\* self.lock(): the caller spins until the flag is clear and takes it
Lock(c) ==
    /\ panicked = "" /\ pc[c] = "lock"
    /\ TryLock(locked)
    /\ locked' = TRUE
    /\ pc' = [pc EXCEPT ![c] = "held"]
    /\ UNCHANGED <<heapVars, panicked, req, frameVars, pageVars, outVars>>

\* the body of alloc or dealloc, run with the guard held
Body(c) ==
    /\ panicked = "" /\ pc[c] = "held"
    /\ LET layout == [size |-> req[c].size, align |-> req[c].align]
       IN  \/ /\ which = "bump" /\ req[c].op = "alloc"
              /\ LET r == BumpAllocResult(bump, layout)
                 IN  /\ bump' = r.bump
                     /\ req' = [req EXCEPT ![c].ptr = r.ret]
              /\ UNCHANGED <<list, panicked>>
           \/ /\ which = "bump" /\ req[c].op = "dealloc"
              /\ bump' = BumpDeallocResult(bump)
              /\ UNCHANGED <<list, panicked, req>>
           \/ /\ which = "list" /\ req[c].op = "alloc"
              /\ LET r == ListAllocResult(list, layout)
                 IN  /\ list' = r.list
                     /\ panicked' = r.panic
                     /\ req' = [req EXCEPT ![c].ptr = r.ret]
              /\ UNCHANGED bump
           \/ /\ which = "list" /\ req[c].op = "dealloc"
              /\ LET r == ListDeallocResult(list, req[c].ptr, layout)
                 IN  /\ list' = r.list
                     /\ panicked' = r.panic
              /\ UNCHANGED <<bump, req>>
    /\ pc' = [pc EXCEPT ![c] = IF panicked' = "" THEN "done" ELSE "held"]
    /\ UNCHANGED <<which, inited, heap, outstanding, last, run>>
    /\ UNCHANGED <<locked, frameVars, pageVars, outVars>>

\* a return that lets go of the lock only when the call has a block to show
Return_KeepsLockOnFailure(c) ==
    /\ panicked = "" /\ pc[c] = "done"
    /\ locked' = (req[c].op = "alloc" /\ req[c].ptr = NULL)
    /\ pc' = [pc EXCEPT ![c] = "idle"]
    /\ outstanding' = IF req[c].op = "alloc" /\ req[c].ptr # NULL
                      THEN Append(outstanding, Block(req[c].ptr, req[c]))
                      ELSE outstanding
    /\ req' = [req EXCEPT ![c] = NoReq]
    /\ UNCHANGED <<which, inited, heap, bump, list, last, run, panicked>>
    /\ UNCHANGED <<frameVars, pageVars, outVars>>

\* the call returns, by whichever return it reached: the guard goes out of
\* scope and the lock is free again
Return(c) ==
    /\ panicked = "" /\ pc[c] = "done"
    /\ locked' = FALSE
    /\ pc' = [pc EXCEPT ![c] = "idle"]
    /\ outstanding' = IF req[c].op = "alloc" /\ req[c].ptr # NULL
                      THEN Append(outstanding, Block(req[c].ptr, req[c]))
                      ELSE outstanding
    /\ req' = [req EXCEPT ![c] = NoReq]
    /\ UNCHANGED <<which, inited, heap, bump, list, last, run, panicked>>
    /\ UNCHANGED <<frameVars, pageVars, outVars>>

NextLock ==
    \/ \E c \in Callers, l \in LockLayouts : CallAlloc(c, l)
    \/ \E c \in Callers, i \in 1..MaxAllocs : CallDealloc(c, i)
    \/ \E c \in Callers : Lock(c)
    \/ \E c \in Callers : Body(c)
    \/ \E c \in Callers : Return(c)

SpecLock == InitLock /\ [][NextLock]_vars

\* C10: at most one caller at a time holds the allocator's guard; the lock is
\* taken exactly while some caller holds it, so a caller that has returned,
\* by a failure return too, has let go of it, and a caller that asks for the
\* lock while it is held stays waiting.
C10_MutualExclusion ==
    /\ Cardinality(InSection) <= 1
    /\ locked <=> InSection # {}
    /\ \A c \in Callers : (pc[c] = "idle" /\ InSection = {}) => ~locked
    /\ \A c \in Callers : (pc[c] = "lock" /\ locked) => ~ENABLED Lock(c)

\* a caller about to return null from alloc while a second one waits for the
\* lock it still holds
C10_Witness ==
    /\ \E c \in Callers :
          /\ pc[c] = "done" /\ req[c].op = "alloc" /\ req[c].ptr = NULL
          /\ \E d \in Callers : d # c /\ pc[d] = "lock"
    /\ locked /\ outstanding # <<>>

---------------------------------------------------------------------------
(* The locked heap allocator on one core with interrupts enabled *)

\* caller 1 is the kernel's code, the others are interrupt handlers
Handlers == Callers \ {1}

\* who the core runs: a handler that has been entered runs until it returns,
\* the code it interrupted waits for that, and no handler is entered while
\* another one runs.  alloc and dealloc leave the interrupts enabled, so a
\* handler can be entered wherever caller 1 is.
OnCpu(c) == \A h \in Handlers \ {c} : pc[h] = "idle"

NextIrq ==
    \/ \E c \in Callers, l \in LockLayouts : OnCpu(c) /\ CallAlloc(c, l)
    \/ \E c \in Callers, i \in 1..MaxAllocs : OnCpu(c) /\ CallDealloc(c, i)
    \/ \E c \in Callers : OnCpu(c) /\ Lock(c)
    \/ \E c \in Callers : OnCpu(c) /\ Body(c)
    \/ \E c \in Callers : OnCpu(c) /\ Return(c)

SpecIrq == InitLock /\ [][NextIrq]_vars

\* the code the handlers interrupt is inside alloc or dealloc with the lock
HolderInterrupted == pc[1] \in {"held", "done"}

\* C20: on one core, with the interrupted code resumed only after the handler
\* has returned: alloc and dealloc do not keep a handler from being entered
\* while they hold the lock, and once a handler asks for the lock that the
\* code it interrupted holds, no step is possible any more: the handler waits
\* for the lock for ever and the holder never runs to release it.
C20_ReentrancyDeadlock ==
    /\ \A h \in Handlers :
          (HolderInterrupted /\ pc[h] = "lock")
              => /\ locked /\ OnCpu(h) /\ ~OnCpu(1)
                 /\ ~ENABLED Lock(h)
                 /\ ~ENABLED NextIrq
    /\ \A h \in Handlers :
          (HolderInterrupted /\ panicked = "" /\ \A g \in Handlers : pc[g] = "idle")
              => /\ OnCpu(h)
                 /\ outstanding # <<>> => ENABLED CallDealloc(h, 1)
                 /\ Len(outstanding) + Cardinality(Pending) < MaxAllocs
                       => \A l \in LockLayouts : ENABLED CallAlloc(h, l)

\* a handler waits for the lock in dealloc while the code it interrupted is
\* in the middle of alloc with the lock
C20_Witness ==
    /\ pc[1] = "held" /\ req[1].op = "alloc" /\ locked /\ panicked = ""
    /\ \E h \in Handlers : pc[h] = "lock" /\ req[h].op = "dealloc"

---------------------------------------------------------------------------
(* VGA text buffer: Writer *)

BUFFER_HEIGHT == 25
BUFFER_WIDTH == 80
Rows == 0..(BUFFER_HEIGHT - 1)
Cols == 0..(BUFFER_WIDTH - 1)

\* b'\n', b' ' and the byte shown for what cannot be printed
NL == 10
Blank == 32
Unprintable == 254
Printable == 32..126

\* a Writer is its column_position and the characters of buffer.chars; the
\* colour code of a cell is the Writer's color_code, which is never assigned
\* after construction, and is left out.  panic is the message of the panic
\* an index outside the buffer raises, "" without one.
BlankRow == [col \in Cols |-> Blank]
WriterOf(cs, col) == [chars |-> cs, column_position |-> col, panic |-> ""]

\* Writer::clear_row
clear_row(cs, row) == [cs EXCEPT ![row] = BlankRow]

\* new_line that leaves the last row as it was
new_line_NoClear(w) ==
    [w EXCEPT !.chars = [row \in Rows |-> IF row < BUFFER_HEIGHT - 1
                                          THEN w.chars[row + 1]
                                          ELSE w.chars[row]],
              !.column_position = 0]

\* Writer::new_line: every row takes the characters of the row below it
\* (column by column in the code, the whole row at once here), the last row
\* is cleared, the column goes back to 0
new_line(w) ==
    LET moved == [row \in Rows |-> IF row < BUFFER_HEIGHT - 1 THEN w.chars[row + 1]
                                    ELSE w.chars[row]]
    IN  [w EXCEPT !.chars = clear_row(moved, BUFFER_HEIGHT - 1),
                  !.column_position = 0]

\* Writer::write_byte; chars[row][col] is a checked index
write_byte(w, byte) ==
    IF byte = NL THEN new_line(w)
    ELSE LET full == IF w.column_position >= BUFFER_WIDTH THEN new_line(w) ELSE w
             row == BUFFER_HEIGHT - 1
             col == full.column_position
         IN  IF col \notin Cols
             THEN [full EXCEPT !.panic = "index out of bounds"]
             ELSE [full EXCEPT !.chars[row][col] = byte,
                               !.column_position = col + 1]

\* Writer::write_string: the bytes of the string in order (the first half of
\* the string, then the second), printable ASCII and the newline as they are,
\* any other byte as 0xfe; a panic ends the writing
RECURSIVE write_string(_, _)
write_string(w, str) ==
    IF str = <<>> THEN w
    ELSE IF Len(str) = 1
    THEN LET byte == str[1]
         IN  write_byte(w, IF byte \in Printable \/ byte = NL THEN byte
                           ELSE Unprintable)
    ELSE LET half == Len(str) \div 2
             first == write_string(w, SubSeq(str, 1, half))
         IN  IF first.panic # "" THEN first
             ELSE write_string(first, SubSeq(str, half + 1, Len(str)))

\* the string of test_println_output
TestString ==
    <<83, 111, 109, 101, 32, 116, 101, 115, 116, 32, 115, 116, 114, 105, 110,
      103, 32, 116, 104, 97, 116, 32, 102, 105, 116, 115, 32, 111, 110, 32, 97,
      32, 115, 105, 110, 103, 108, 101, 32, 108, 105, 110, 101>>
\* n printable characters, no two neighbours alike
Line(n) == [i \in 1..n |-> 33 + ((7 * i) % 90)]
\* writeln!(writer, "\n{}", s): a newline, s, a newline
Framed(s) == <<NL>> \o s \o <<NL>>
\* strings of fewer characters than a row has: none, one, the test's, the
\* longest
ShortStrings == {<<>>, <<65>>, TestString, Line(BUFFER_WIDTH - 1)}
\* what is written: the framed strings, a bare newline, a line left open, a
\* line longer than a row, bytes that cannot be printed
VgaStrings ==
    {Framed(s) : s \in ShortStrings}
        \cup {<<NL>>, <<65, 66>>, Line(BUFFER_WIDTH + 5), <<200, 9, 66>>}

\* what the VGA memory holds when the Writer is constructed
BootScreens ==
    {[row \in Rows |-> BlankRow],
     [row \in Rows |-> [col \in Cols |-> 88]],
     [row \in Rows |-> [col \in Cols |-> 33 + ((row + col) % 90)]]}

\* WRITER as lazy_static constructs it
InitVga ==
    /\ HeapIdle /\ FrameIdle /\ PageIdle /\ LockIdle /\ CpuIdle /\ panicked = ""
    /\ chars \in BootScreens
    /\ column_position = 0
    /\ written = <<>>

\* write_string on the Writer (what write_fmt calls for each piece of the
\* formatted text, one after the other with the Writer borrowed)
WriteString(str) ==
    /\ panicked = ""
    /\ Len(written) < MaxWrites
    /\ LET w == write_string(WriterOf(chars, column_position), str)
       IN  /\ chars' = w.chars
           /\ column_position' = w.column_position
           /\ panicked' = w.panic
    /\ written' = Append(written, str)
    /\ UNCHANGED <<heapVars, frameVars, pageVars, lockVars, cpuVars>>

NextVga == \E str \in VgaStrings : WriteString(str)

SpecVga == InitVga /\ [][NextVga]_vars

\* the string written last, when it is a newline, printable characters fewer
\* than a row has, and a newline
LastWritten == written[Len(written)]
LastIsFramed ==
    /\ written # <<>>
    /\ Len(LastWritten) >= 2 /\ Len(LastWritten) - 2 < BUFFER_WIDTH
    /\ LastWritten[1] = NL /\ LastWritten[Len(LastWritten)] = NL
    /\ \A i \in 2..(Len(LastWritten) - 1) : LastWritten[i] \in Printable

\* C22: whatever the screen held, after a newline, a string s of printable
\* characters shorter than a row, and a newline have been written, the row
\* above the last holds the characters of s in order from column 0, the last
\* row is blank and the column position is 0.
C22_FramedLineLands ==
    LastIsFramed =>
        /\ \A i \in 2..(Len(LastWritten) - 1) :
              chars[BUFFER_HEIGHT - 2][i - 2] = LastWritten[i]
        /\ \A col \in Cols : chars[BUFFER_HEIGHT - 1][col] = Blank
        /\ column_position = 0
        /\ panicked = ""

\* the test's string written onto a screen full of characters with a line
\* left open before it
C22_Witness ==
    /\ Len(written) = 2 /\ written[1] = <<65, 66>>
    /\ LastWritten = Framed(TestString)
    /\ chars[0][0] # Blank
    /\ chars[BUFFER_HEIGHT - 2][0] = 83
    /\ chars[BUFFER_HEIGHT - 3][1] = 66

---------------------------------------------------------------------------
(* print! from the kernel's code and from the interrupt handlers *)

\* the interrupt lines with a handler that prints
Lines == {"timer", "keyboard"}
\* what is printed: by the kernel's code, by the timer handler ("."), and by
\* the keyboard handler for a decoded key
KernelTexts == {<<104, 105, NL>>}
TimerText == <<46>>
KeyTexts == {<<107>>}

\* a frame of the stack: whose code it is, where it is, the interrupt flag
\* without_interrupts saved, the text being printed
Frame(who, at) == [who |-> who, pc |-> at, saved |-> FALSE, text |-> <<>>]
Top == stack[Len(stack)]
SetTop(f) == [stack EXCEPT ![Len(stack)] = f]
\* the step after _print has returned
AfterPrint(who) == IF who = "kernel" THEN "run" ELSE "eoi_lock"

\* the kernel after lib::init: interrupts enabled, no lock taken
InitPrint ==
    /\ HeapIdle /\ FrameIdle /\ PageIdle /\ LockIdle /\ panicked = ""
    /\ chars \in BootScreens
    /\ column_position = 0
    /\ written = <<>>
    /\ if_flag = TRUE
    /\ held = {}
    /\ stack = <<Frame("kernel", "run")>>
    /\ irq = [l \in Lines |-> [entered |-> 0, eoi |-> 0, in_service |-> FALSE]]

OnlyStack == UNCHANGED <<heapVars, panicked, frameVars, pageVars, lockVars, vgaVars>>

\* the kernel's code calls print! / println!
CallPrint(text) ==
    /\ panicked = "" /\ Top.who = "kernel" /\ Top.pc = "run"
    /\ Len(written) < MaxWrites
    /\ stack' = SetTop([Top EXCEPT !.pc = "print", !.text = text])
    /\ UNCHANGED <<if_flag, held, irq>> /\ OnlyStack

\* without_interrupts: the flag is read
SaveFlags ==
    /\ panicked = "" /\ Top.pc = "print"
    /\ stack' = SetTop([Top EXCEPT !.pc = "cli", !.saved = if_flag])
    /\ UNCHANGED <<if_flag, held, irq>> /\ OnlyStack

\* a _print that takes the lock with the interrupts as they are
DisableInterrupts_Forgets ==
    /\ panicked = "" /\ Top.pc = "cli"
    /\ stack' = SetTop([Top EXCEPT !.pc = "lock"])
    /\ UNCHANGED <<if_flag, held, irq>> /\ OnlyStack

\* without_interrupts: the interrupts are disabled if they were enabled
DisableInterrupts ==
    /\ panicked = "" /\ Top.pc = "cli"
    /\ if_flag' = IF Top.saved THEN FALSE ELSE if_flag
    /\ stack' = SetTop([Top EXCEPT !.pc = "lock"])
    /\ UNCHANGED <<held, irq>> /\ OnlyStack

\* WRITER.lock(): spins until the lock is free
LockWriter ==
    /\ panicked = "" /\ Top.pc = "lock"
    /\ "WRITER" \notin held
    /\ held' = held \cup {"WRITER"}
    /\ stack' = SetTop([Top EXCEPT !.pc = "write"])
    /\ UNCHANGED <<if_flag, irq>> /\ OnlyStack

\* write_fmt(args).unwrap() on the locked Writer
WriteFmt ==
    /\ panicked = "" /\ Top.pc = "write"
    /\ LET w == write_string(WriterOf(chars, column_position), Top.text)
       IN  /\ chars' = w.chars
           /\ column_position' = w.column_position
           /\ panicked' = w.panic
    /\ written' = Append(written, Top.text)
    /\ stack' = SetTop([Top EXCEPT !.pc = "unlock"])
    /\ UNCHANGED <<if_flag, held, irq>>
    /\ UNCHANGED <<heapVars, frameVars, pageVars, lockVars>>

\* the guard is dropped at the end of the statement
UnlockWriter ==
    /\ panicked = "" /\ Top.pc = "unlock"
    /\ held' = held \ {"WRITER"}
    /\ stack' = SetTop([Top EXCEPT !.pc = "sti"])
    /\ UNCHANGED <<if_flag, irq>> /\ OnlyStack

\* without_interrupts: the interrupts are enabled again if they were before;
\* _print returns
RestoreInterrupts ==
    /\ panicked = "" /\ Top.pc = "sti"
    /\ if_flag' = IF Top.saved THEN TRUE ELSE if_flag
    /\ stack' = SetTop([Top EXCEPT !.pc = AfterPrint(Top.who), !.text = <<>>,
                                   !.saved = FALSE])
    /\ UNCHANGED <<held, irq>> /\ OnlyStack

\* an interrupt is delivered: the CPU enters the handler through its
\* interrupt gate, which clears the interrupt flag; the line stays in service
\* at the PIC until its end-of-interrupt
Deliver(line) ==
    /\ panicked = "" /\ if_flag
    /\ ~irq[line].in_service /\ irq[line].entered < MaxIrqs
    /\ if_flag' = FALSE
    /\ irq' = [irq EXCEPT ![line].entered = @ + 1, ![line].in_service = TRUE]
    /\ stack' = Append(stack,
                       IF line = "timer"
                       THEN [Frame("timer", "print") EXCEPT !.text = TimerText]
                       ELSE Frame("keyboard", "kb_lock"))
    /\ UNCHANGED held /\ OnlyStack

\* keyboard_interrupt_handler: KEYBOARD.lock()
LockKeyboard ==
    /\ panicked = "" /\ Top.pc = "kb_lock"
    /\ "KEYBOARD" \notin held
    /\ held' = held \cup {"KEYBOARD"}
    /\ stack' = SetTop([Top EXCEPT !.pc = "kb_read"])
    /\ UNCHANGED <<if_flag, irq>> /\ OnlyStack

\* the scancode is read and decoded: a key to print, or nothing
ReadKey(text) ==
    /\ panicked = "" /\ Top.pc = "kb_read"
    /\ stack' = SetTop(IF text = <<>> THEN [Top EXCEPT !.pc = "eoi_lock"]
                       ELSE [Top EXCEPT !.pc = "print", !.text = text])
    /\ UNCHANGED <<if_flag, held, irq>> /\ OnlyStack

\* PICS.lock()
LockPics ==
    /\ panicked = "" /\ Top.pc = "eoi_lock"
    /\ "PICS" \notin held
    /\ held' = held \cup {"PICS"}
    /\ stack' = SetTop([Top EXCEPT !.pc = "eoi"])
    /\ UNCHANGED <<if_flag, irq>> /\ OnlyStack

\* notify_end_of_interrupt, after which the PICS guard is dropped
NotifyEndOfInterrupt ==
    /\ panicked = "" /\ Top.pc = "eoi"
    /\ irq' = [irq EXCEPT ![Top.who].eoi = @ + 1, ![Top.who].in_service = FALSE]
    /\ held' = held \ {"PICS"}
    /\ stack' = SetTop([Top EXCEPT !.pc = "ret"])
    /\ UNCHANGED if_flag /\ OnlyStack

\* the handler returns: its guards go out of scope (the keyboard handler's
\* KEYBOARD guard), and iretq restores the interrupted code's flags
HandlerReturn ==
    /\ panicked = "" /\ Top.pc = "ret"
    /\ held' = IF Top.who = "keyboard" THEN held \ {"KEYBOARD"} ELSE held
    /\ stack' = SubSeq(stack, 1, Len(stack) - 1)
    /\ if_flag' = TRUE
    /\ UNCHANGED irq /\ OnlyStack

NextPrint ==
    \/ \E text \in KernelTexts : CallPrint(text)
    \/ SaveFlags
    \/ DisableInterrupts
    \/ LockWriter
    \/ WriteFmt
    \/ UnlockWriter
    \/ RestoreInterrupts
    \/ \E line \in Lines : Deliver(line)
    \/ LockKeyboard
    \/ \E text \in KeyTexts \cup {<<>>} : ReadKey(text)
    \/ LockPics
    \/ NotifyEndOfInterrupt
    \/ HandlerReturn

SpecPrint == InitPrint /\ [][NextPrint]_vars

\* a handler is running
InHandler == Len(stack) > 1
\* the code on the CPU is at a lock that is taken
Spinning ==
    \/ Top.pc = "lock" /\ "WRITER" \in held
    \/ Top.pc = "kb_lock" /\ "KEYBOARD" \in held
    \/ Top.pc = "eoi_lock" /\ "PICS" \in held
\* the handler invocations of a line whose end-of-interrupt is still to come
Unacknowledged(line) == irq[line].entered - irq[line].eoi

\* C21: the output path is deadlock-free under interrupts.  _print holds the
\* WRITER lock only with the interrupts disabled, so no handler ever runs
\* while the code it interrupted holds the lock: the code on the CPU is never
\* at a taken lock, a running timer or keyboard handler always has its next
\* step, nothing on the path panics, and a handler returns only after its
\* end-of-interrupt has been sent (every entry of a line that has no handler
\* running has had its end-of-interrupt).
C21_PrintNeverDeadlocks ==
    /\ "WRITER" \in held => ~if_flag
    /\ InHandler => ~if_flag
    /\ ~Spinning
    /\ panicked = ""
    /\ InHandler => ENABLED NextPrint
    /\ \A line \in Lines :
          /\ Unacknowledged(line) \in {0, 1}
          /\ Unacknowledged(line) = 1 =>
                InHandler /\ Top.who = line /\ Top.pc # "ret"
          /\ irq[line].in_service <=> Unacknowledged(line) = 1
\* the timer handler has interrupted the kernel's code right after a print
\* of it, printed its dot after that text, sent its end-of-interrupt and is
\* about to return, and the keyboard handler has printed a key before
C21_Witness ==
    /\ InHandler /\ Top.who = "timer" /\ Top.pc = "ret"
    /\ irq["timer"].eoi = 1 /\ irq["keyboard"].eoi = 1
    /\ Len(written) = 3
    /\ written[1] \in KeyTexts
    /\ written[2] \in KernelTexts
    /\ written[3] = TimerText
    /\ stack[1].pc = "run"
    /\ chars[BUFFER_HEIGHT - 1][0] = 46

=============================================================================
